---- MODULE Spec2Model ----
(***************************************************************************)
(* AzureBlobExplorer (src/script.js): the controller that resolves a       *)
(* container URL, fetches a flat blob listing, projects it to the          *)
(* immediate children of the current path and renders it.                  *)
(*                                                                         *)
(* Strings are sequences of one-character strings, so that split, join,    *)
(* substring, endsWith and includes are computed character by character.   *)
(***************************************************************************)
EXTENDS Integers, Sequences, FiniteSets, TLC

VARIABLES
    currentPath,     \* this.currentPath
    containerUrl,    \* this.containerUrl
    containerName,   \* this.containerName
    storageAccount,  \* this.storageAccount
    files,           \* this.files: the projected Nodes
    folders,         \* this.folders: a JS Set, kept in insertion order
    fileList,        \* DOM #fileList: [kind, items]
    breadcrumbs,     \* DOM #breadcrumbs: the crumbs and their click handlers
    loading,         \* DOM #loading is displayed
    errorMessage,    \* DOM #errorMessage: the text displayed, "" when hidden
    inflight,        \* the loadContainerContents calls suspended at await fetch
    lastDone,        \* the loadContainerContents call that returned last
    opened           \* the last call of openFile: its argument, and what
                     \* window.open was given

vars == <<currentPath, containerUrl, containerName, storageAccount, files, folders,
          fileList, breadcrumbs, loading, errorMessage, inflight, lastDone, opened>>

----------------------------------------------------------------------------
(* Bounds of the model *)

\* longest blob name of a listing handed to the projector alone
MaxKeyLen == 3
\* most <Blob> elements in one listing document
MaxEntries == 2
\* longest currentPath handed to the projector alone
MaxPathLen == 1
\* most loadContainerContents calls outstanding at once
MaxInFlight == 2

----------------------------------------------------------------------------
(* Strings *)

\* the characters of the names and paths handed to the projector alone
Alphabet == {"a", "/"}

Strings(n) == UNION {[1..k -> Alphabet] : k \in 0..n}

Slash == <<"/">>

\* JS null and a missing XML element, told apart from every string
Null == <<"null">>
NoElement == <<"no-element">>
\* parseInt of a text that does not start with a digit
NaN == -1
\* size: null of a folder Node
NullSize == -2

\* s.substring(n)
Substring(s, n) == IF n >= Len(s) THEN <<>> ELSE SubSeq(s, n + 1, Len(s))

\* s.endsWith(t)
EndsWith(s, t) ==
    /\ Len(t) <= Len(s)
    /\ SubSeq(s, Len(s) - Len(t) + 1, Len(s)) = t

\* s.startsWith(t)
StartsWith(s, t) ==
    /\ Len(t) <= Len(s)
    /\ SubSeq(s, 1, Len(t)) = t

\* s.includes(t)
Includes(s, t) ==
    \E i \in 1..(Len(s) - Len(t) + 1) : SubSeq(s, i, i + Len(t) - 1) = t

\* index of the first sep in s, 0 when there is none
RECURSIVE IndexOf(_, _, _)
IndexOf(s, sep, i) ==
    IF i > Len(s) THEN 0
    ELSE IF s[i] = sep THEN i
    ELSE IndexOf(s, sep, i + 1)

\* s.split(sep): "" gives [""], "a/" gives ["a", ""]
RECURSIVE Split(_, _)
Split(s, sep) ==
    LET i == IndexOf(s, sep, 1) IN
    IF i = 0 THEN <<s>>
    ELSE <<SubSeq(s, 1, i - 1)>> \o Split(Substring(s, i), sep)

\* parts.filter(part => part)
RECURSIVE FilterNonEmpty(_)
FilterNonEmpty(parts) ==
    IF parts = <<>> THEN <<>>
    ELSE IF Head(parts) = <<>> THEN FilterNonEmpty(Tail(parts))
    ELSE <<Head(parts)>> \o FilterNonEmpty(Tail(parts))

\* parts.join(sep)
RECURSIVE Join(_, _)
Join(parts, sep) ==
    IF parts = <<>> THEN <<>>
    ELSE IF Len(parts) = 1 THEN parts[1]
    ELSE parts[1] \o <<sep>> \o Join(Tail(parts), sep)

Digits == <<"0", "1", "2", "3", "4", "5", "6", "7", "8", "9">>

IsDigit(c) == \E d \in 1..10 : Digits[d] = c

DigitValue(c) == (CHOOSE d \in 1..10 : Digits[d] = c) - 1

\* parseInt(text): the value of the leading decimal digits, NaN without one
RECURSIVE ParseDigits(_, _)
ParseDigits(text, acc) ==
    IF text = <<>> \/ ~IsDigit(Head(text)) THEN acc
    ELSE ParseDigits(Tail(text), acc * 10 + DigitValue(Head(text)))

parseInt(text) ==
    IF text = <<>> \/ ~IsDigit(Head(text)) THEN NaN ELSE ParseDigits(text, 0)

----------------------------------------------------------------------------
(* processContainerResponse *)

\* this.folders.add(name): a Set keeps the first insertion only
SetAdd(set, name) ==
    IF \E i \in 1..Len(set) : set[i] = name THEN set ELSE Append(set, name)

FileNode(blob, pathParts, base) ==
    [name         |-> pathParts[1],
     fullPath     |-> blob.Name,
     size         |-> IF blob.ContentLength = NoElement THEN 0
                      ELSE parseInt(blob.ContentLength),
     lastModified |-> IF blob.LastModified = NoElement THEN Null
                      ELSE blob.LastModified,
     isFolder     |-> FALSE,
     url          |-> base \o Slash \o blob.Name]

\* FolderNode with a url built like a file's
FolderNodeCarriesUrl(folderName, path) ==
    [name         |-> folderName,
     fullPath     |-> IF path /= <<>> THEN path \o Slash \o folderName ELSE folderName,
     size         |-> NullSize,
     lastModified |-> Null,
     isFolder     |-> TRUE,
     url          |-> containerUrl \o Slash \o folderName]

FolderNode(folderName, path) ==
    [name         |-> folderName,
     fullPath     |-> IF path /= <<>> THEN path \o Slash \o folderName ELSE folderName,
     size         |-> NullSize,
     lastModified |-> Null,
     isFolder     |-> TRUE,
     url          |-> Null]

PrefixLength(path) ==
    IF path /= <<>> THEN Len(path) + (IF EndsWith(path, Slash) THEN 0 ELSE 1) ELSE 0

\* BlobStep with this.folders.add(relativePath) for this.folders.add(pathParts[0])
BlobStepAddsRelativePath(acc, blob, path, base) ==
    IF blob.Name = NoElement THEN acc
    ELSE
        LET relativePath == Substring(blob.Name, PrefixLength(path))
            pathParts == Split(relativePath, "/")
        IN  IF relativePath = <<>> THEN acc
            ELSE IF Len(pathParts) = 1
                 THEN [acc EXCEPT !.files = Append(@, FileNode(blob, pathParts, base))]
            ELSE IF pathParts[1] /= <<>>
                 THEN [acc EXCEPT !.folders = SetAdd(@, relativePath)]
            ELSE acc

\* BlobStep with the last segment for the first as the folder's name
BlobStepTakesLastSegment(acc, blob, path, base) ==
    IF blob.Name = NoElement THEN acc
    ELSE
        LET relativePath == Substring(blob.Name, PrefixLength(path))
            pathParts == Split(relativePath, "/")
        IN  IF relativePath = <<>> THEN acc
            ELSE IF Len(pathParts) = 1
                 THEN [acc EXCEPT !.files = Append(@, FileNode(blob, pathParts, base))]
            ELSE IF pathParts[1] /= <<>>
                 THEN [acc EXCEPT !.folders = SetAdd(@, pathParts[Len(pathParts)])]
            ELSE acc

\* BlobStep with else in place of else if (pathParts[0])
BlobStepAddsEmptyFolder(acc, blob, path, base) ==
    IF blob.Name = NoElement THEN acc
    ELSE
        LET relativePath == Substring(blob.Name, PrefixLength(path))
            pathParts == Split(relativePath, "/")
        IN  IF relativePath = <<>> THEN acc
            ELSE IF Len(pathParts) = 1
                 THEN [acc EXCEPT !.files = Append(@, FileNode(blob, pathParts, base))]
            ELSE [acc EXCEPT !.folders = SetAdd(@, pathParts[1])]

\* the for loop over the <Blob> elements: what one blob adds to
\* acc = [files, folders]
BlobStep(acc, blob, path, base) ==
    IF blob.Name = NoElement THEN acc
    ELSE
        LET relativePath == Substring(blob.Name, PrefixLength(path))
            pathParts == Split(relativePath, "/")
        IN  IF relativePath = <<>> THEN acc
            ELSE IF Len(pathParts) = 1
                 THEN [acc EXCEPT !.files = Append(@, FileNode(blob, pathParts, base))]
            ELSE IF pathParts[1] /= <<>>
                 THEN [acc EXCEPT !.folders = SetAdd(@, pathParts[1])]
            ELSE acc

RECURSIVE BlobLoop(_, _, _, _)
BlobLoop(acc, blobs, path, base) ==
    IF blobs = <<>> THEN acc
    ELSE BlobLoop(BlobStep(acc, Head(blobs), path, base), Tail(blobs), path, base)

\* Array.from(this.folders).forEach(name => this.files.unshift(...))
RECURSIVE UnshiftFolders(_, _, _)
UnshiftFolders(list, names, path) ==
    IF names = <<>> THEN list
    ELSE UnshiftFolders(<<FolderNode(Head(names), path)>> \o list, Tail(names), path)

\* processContainerResponse without this.files = [] and
\* this.folders = new Set() at its start
processContainerResponseKeepsNodes(xmlDoc, path, base) ==
    LET acc == BlobLoop([files |-> files, folders |-> folders], xmlDoc, path, base)
    IN  [files   |-> UnshiftFolders(acc.files, acc.folders, path),
         folders |-> acc.folders]

\* the values of this.files and this.folders after the call; base is
\* this.containerUrl when it runs
processContainerResponse(xmlDoc, path, base) ==
    LET acc == BlobLoop([files |-> <<>>, folders |-> <<>>], xmlDoc, path, base)
    IN  [files   |-> UnshiftFolders(acc.files, acc.folders, path),
         folders |-> acc.folders]

----------------------------------------------------------------------------
(* parseAzureBlobUrl *)

BlobDomain ==
    <<".", "b", "l", "o", "b", ".", "c", "o", "r", "e", ".",
      "w", "i", "n", "d", "o", "w", "s", ".", "n", "e", "t">>

\* what new URL(url) gives: a malformed text throws; text is the trimmed
\* input, of which only emptiness is read
Url(text, wellFormed, protocol, hostname, pathname) ==
    [text |-> text, wellFormed |-> wellFormed, protocol |-> protocol,
     hostname |-> hostname, pathname |-> pathname]

\* parseAzureBlobUrl with the assignment of storageAccount moved above the
\* check of the hostname and the path
parseAzureBlobUrlAssignsEarly(url) ==
    LET unchanged == [ok |-> FALSE, storageAccount |-> storageAccount,
                      containerName |-> containerName,
                      containerUrl |-> containerUrl, currentPath |-> currentPath]
    IN  IF ~url.wellFormed THEN unchanged
        ELSE
            LET pathParts == FilterNonEmpty(Split(url.pathname, "/")) IN
            IF ~Includes(url.hostname, BlobDomain) \/ Len(pathParts) < 1
            THEN [unchanged EXCEPT !.storageAccount = Split(url.hostname, ".")[1]]
            ELSE [ok             |-> TRUE,
                  storageAccount |-> Split(url.hostname, ".")[1],
                  containerName  |-> pathParts[1],
                  containerUrl   |-> url.protocol \o <<"/", "/">> \o url.hostname
                                       \o Slash \o pathParts[1],
                  currentPath    |-> Join(Tail(pathParts), "/")]

\* the result of the call and the fields as it leaves them: nothing is
\* assigned on the two return false paths
parseAzureBlobUrl(url) ==
    LET unchanged == [ok |-> FALSE, storageAccount |-> storageAccount,
                      containerName |-> containerName,
                      containerUrl |-> containerUrl, currentPath |-> currentPath]
    IN  IF ~url.wellFormed THEN unchanged
        ELSE
            LET pathParts == FilterNonEmpty(Split(url.pathname, "/")) IN
            IF ~Includes(url.hostname, BlobDomain) \/ Len(pathParts) < 1
            THEN unchanged
            ELSE [ok             |-> TRUE,
                  storageAccount |-> Split(url.hostname, ".")[1],
                  containerName  |-> pathParts[1],
                  containerUrl   |-> url.protocol \o <<"/", "/">> \o url.hostname
                                       \o Slash \o pathParts[1],
                  currentPath    |-> Join(Tail(pathParts), "/")]

----------------------------------------------------------------------------
(* renderFileList, updateBreadcrumbs *)

\* buildPath after the first k parts
BuildPath(parts, k) == Join(SubSeq(parts, 1, k), "/")

\* Each crumb's click handler reads the one variable buildPath (declared
\* outside the forEach callback) when the click happens, which is after the
\* loop has finished: target is what the click passes to navigateToFolder.
updateBreadcrumbs(path) ==
    LET homeCrumb == [label |-> containerName, dataPath |-> <<>>, target |-> <<>>]
        pathParts == FilterNonEmpty(Split(path, "/"))
    IN  IF path /= <<>>
        THEN <<homeCrumb>> \o
             [i \in 1..Len(pathParts) |->
                 [label    |-> pathParts[i],
                  dataPath |-> BuildPath(pathParts, i),
                  target   |-> BuildPath(pathParts, Len(pathParts))]]
        ELSE <<homeCrumb>>

\* the two DOM parts after renderFileList(path) with this.files = list
renderFileList(list, path) ==
    IF Len(list) = 0
    THEN [fileList |-> [kind |-> "empty", items |-> <<>>], breadcrumbs |-> breadcrumbs]
    ELSE [fileList |-> [kind |-> "grid", items |-> list],
          breadcrumbs |-> updateBreadcrumbs(path)]

----------------------------------------------------------------------------
(* The inputs: the URLs typed and the documents the server answers with *)

Https == <<"h", "t", "t", "p", "s", ":">>

\* ac.blob.core.windows.net
AccountHost == <<"a", "c">> \o BlobDomain
\* ac.blob.core.windows.net.ev: the blob service domain followed by a label
TrailingHost == AccountHost \o <<".", "e", "v">>
\* ex.com
OtherHost == <<"e", "x", ".", "c", "o", "m">>

\* the texts typed into #blobUrlInput, with what new URL(text) gives
UrlInputs ==
    { Url("", FALSE, <<>>, <<>>, <<>>),
      Url("not a url", FALSE, <<>>, <<>>, <<>>),
      Url("https://ex.com/c", TRUE, Https, OtherHost, <<"/", "c">>),
      Url("https://ac.blob.core.windows.net/", TRUE, Https, AccountHost, <<"/">>),
      Url("https://ac.blob.core.windows.net/c/a/b", TRUE, Https, AccountHost,
          <<"/", "c", "/", "a", "/", "b">>) }

\* the same, and the URL of a second container, on a host that goes on after
\* the blob service domain
ResolverUrlInputs ==
    UrlInputs \cup
    { Url("https://ac.blob.core.windows.net.ev/d//a/", TRUE, Https, TrailingHost,
          <<"/", "d", "/", "/", "a", "/">>) }

\* new Date(text)
Date(text) == <<"Date">> \o text

\* one <Blob> element: the text of its Name, Content-Length and
\* Last-Modified children, NoElement for a child that is missing
Blob(name, contentLength, lastModified) ==
    [Name |-> name, ContentLength |-> contentLength, LastModified |-> lastModified]

SeqsUpTo(S, n) == UNION {[1..k -> S] : k \in 0..n}

\* the listings handed to the projector alone: every name over the alphabet
ProjectorBlobs ==
    { Blob(n, <<"1", "0">>, Date(<<"d">>)) : n \in Strings(MaxKeyLen) \cup {NoElement} }

Listings == SeqsUpTo(ProjectorBlobs, MaxEntries)

\* the documents the server answers a navigation with
ServerDocs ==
    { <<>>,
      <<Blob(<<"a", "/", "b">>, NoElement, NoElement),
        Blob(<<"a">>, <<"7">>, Date(<<"d">>)),
        Blob(<<"b", "/", "a">>, <<"1", "0">>, Date(<<"d">>))>>,
      <<Blob(<<"a", "/", "b", "/", "a">>, <<"5">>, NoElement),
        Blob(<<"a", "/", "b">>, <<"1", "0">>, Date(<<"d">>))>> }

\* a response that is not ok, or a fetch that rejects
Failures == {"404", "403", "500", "network"}

FailureMessage(failure) ==
    CASE failure = "404" -> "Container not found or not publicly accessible"
      [] failure = "403" -> "Access denied. Container must be publicly accessible"
      [] failure = "500" -> "Failed to fetch container contents: Internal Server Error"
      [] OTHER -> "Failed to fetch"

----------------------------------------------------------------------------
(* State *)

NoSnapshot == [currentPath |-> <<>>, files |-> <<>>]

\* lastDone: outcome "ok" with the arguments processContainerResponse was
\* called with, "fail" for a call that ended in the catch block
NoneDone ==
    [outcome |-> "none", path |-> <<>>, xmlDoc |-> <<>>, base |-> <<>>, alone |-> FALSE]

Init ==
    /\ currentPath = <<>>
    /\ containerUrl = <<>>
    /\ containerName = <<>>
    /\ storageAccount = <<>>
    /\ files = <<>>
    /\ folders = <<>>
    /\ fileList = [kind |-> "welcome", items |-> <<>>]
    /\ breadcrumbs = <<>>
    /\ loading = FALSE
    /\ errorMessage = ""
    /\ inflight = <<>>
    /\ lastDone = NoneDone
    /\ opened = <<>>

----------------------------------------------------------------------------
(* loadContainerContents *)

\* A call starting while others are outstanding overlaps them: alone tells
\* that no other handler ran between the start of a call and its end, and
\* before keeps currentPath and this.files as they were when the operation
\* that made the call was invoked.
Overlapped(calls) ==
    [i \in 1..Len(calls) |-> [calls[i] EXCEPT !.alone = FALSE, !.before = NoSnapshot]]

\* the call up to await fetch(url): url is built from this.containerUrl as
\* it is now (base), with the prefix parameter when path is not empty
loadContainerContents(path, base, before) ==
    /\ Len(inflight) < MaxInFlight
    /\ errorMessage' = ""
    /\ loading' = TRUE
    /\ inflight' = Append(Overlapped(inflight),
                     [path   |-> path,
                      base   |-> base,
                      prefix |-> IF path /= <<>>
                                 THEN path \o (IF EndsWith(path, Slash) THEN <<>> ELSE Slash)
                                 ELSE Null,
                      alone  |-> inflight = <<>>,
                      before |-> IF inflight = <<>> THEN before ELSE NoSnapshot])

Remove(calls, i) == SubSeq(calls, 1, i - 1) \o SubSeq(calls, i + 1, Len(calls))

\* FetchOk with a response dropped when its path is no longer currentPath
FetchOkDropsStale(i, xmlDoc) ==
    /\ i \in 1..Len(inflight)
    /\ LET call == inflight[i]
           result == IF call.path = currentPath
                     THEN processContainerResponse(xmlDoc, call.path, containerUrl)
                     ELSE [files |-> files, folders |-> folders]
           dom == IF call.path = currentPath
                  THEN renderFileList(result.files, call.path)
                  ELSE [fileList |-> fileList, breadcrumbs |-> breadcrumbs]
       IN  /\ files' = result.files
           /\ folders' = result.folders
           /\ fileList' = dom.fileList
           /\ breadcrumbs' = dom.breadcrumbs
           /\ loading' = FALSE
           /\ inflight' = Remove(inflight, i)
           /\ lastDone' = [outcome |-> "ok", path |-> call.path, xmlDoc |-> xmlDoc,
                           base |-> containerUrl, alone |-> call.alone]
    /\ UNCHANGED <<currentPath, containerUrl, containerName, storageAccount, errorMessage,
                   opened>>

\* the response is ok and its text has arrived: the rest of the try block
FetchOk(i, xmlDoc) ==
    /\ i \in 1..Len(inflight)
    /\ LET call == inflight[i]
           result == processContainerResponse(xmlDoc, call.path, containerUrl)
           dom == renderFileList(result.files, call.path)
       IN  /\ files' = result.files
           /\ folders' = result.folders
           /\ fileList' = dom.fileList
           /\ breadcrumbs' = dom.breadcrumbs
           /\ loading' = FALSE
           /\ inflight' = Remove(inflight, i)
           /\ lastDone' = [outcome |-> "ok", path |-> call.path, xmlDoc |-> xmlDoc,
                           base |-> containerUrl, alone |-> call.alone]
    /\ UNCHANGED <<currentPath, containerUrl, containerName, storageAccount, errorMessage,
                   opened>>

\* FetchFail with a catch block that has no showLoading(false)
FetchFailKeepsLoading(i, failure) ==
    /\ i \in 1..Len(inflight)
    /\ LET call == inflight[i]
       IN  /\ errorMessage' = "Error loading container: " \o FailureMessage(failure)
           /\ inflight' = Remove(inflight, i)
           /\ lastDone' = [NoneDone EXCEPT !.outcome = "fail", !.path = call.path,
                                           !.alone = call.alone]
    /\ UNCHANGED <<currentPath, containerUrl, containerName, storageAccount, files,
                   folders, fileList, breadcrumbs, loading, opened>>

\* the response is not ok, or fetch or response.text() rejects: the catch
\* block
FetchFail(i, failure) ==
    /\ i \in 1..Len(inflight)
    /\ LET call == inflight[i]
       IN  /\ loading' = FALSE
           /\ errorMessage' = "Error loading container: " \o FailureMessage(failure)
           /\ inflight' = Remove(inflight, i)
           /\ lastDone' = [NoneDone EXCEPT !.outcome = "fail", !.path = call.path,
                                           !.alone = call.alone]
    /\ UNCHANGED <<currentPath, containerUrl, containerName, storageAccount, files,
                   folders, fileList, breadcrumbs, opened>>

----------------------------------------------------------------------------
(* The handlers *)

Snapshot == [currentPath |-> currentPath, files |-> files]

connect(urlInput) ==
    IF urlInput.text = ""
    THEN /\ errorMessage' = "Please enter a valid Azure Blob Storage URL"
         /\ UNCHANGED <<currentPath, containerUrl, containerName, storageAccount, files,
                        folders, fileList, breadcrumbs, loading, inflight, lastDone,
                        opened>>
    ELSE LET parsed == parseAzureBlobUrl(urlInput) IN
         /\ currentPath' = parsed.currentPath
         /\ containerUrl' = parsed.containerUrl
         /\ containerName' = parsed.containerName
         /\ storageAccount' = parsed.storageAccount
         /\ IF ~parsed.ok
            THEN /\ errorMessage' = "Invalid Azure Blob Storage URL format. Expected: https://account.blob.core.windows.net/container"
                 /\ UNCHANGED <<loading, inflight>>
            ELSE loadContainerContents(<<>>, parsed.containerUrl, Snapshot)
         /\ UNCHANGED <<files, folders, fileList, breadcrumbs, lastDone, opened>>

\* navigateToFolder returning at once when folderPath is this.currentPath
navigateToFolderSkipsCurrent(folderPath) ==
    IF folderPath = currentPath
    THEN UNCHANGED vars
    ELSE /\ currentPath' = folderPath
         /\ loadContainerContents(folderPath, containerUrl, Snapshot)
         /\ UNCHANGED <<containerUrl, containerName, storageAccount, files, folders,
                        fileList, breadcrumbs, lastDone, opened>>

navigateToFolder(folderPath) ==
    /\ currentPath' = folderPath
    /\ loadContainerContents(folderPath, containerUrl, Snapshot)
    /\ UNCHANGED <<containerUrl, containerName, storageAccount, files, folders,
                   fileList, breadcrumbs, lastDone, opened>>

\* the click handler createFileItem gives a folder item
ClickFolder(i) ==
    /\ i \in 1..Len(fileList.items)
    /\ fileList.items[i].isFolder
    /\ navigateToFolder(fileList.items[i].fullPath)

\* the click handler updateBreadcrumbs gives the i-th crumb
ClickCrumb(i) ==
    /\ i \in 1..Len(breadcrumbs)
    /\ navigateToFolder(breadcrumbs[i].target)

\* openFile(file): window.open is called when file.url is truthy
openFile(file) ==
    opened' = <<[file   |-> file,
                 window |-> IF file.url /= Null /\ file.url /= <<>>
                            THEN file.url ELSE Null]>>

\* the click handler createFileItem gives an item that is not a folder
ClickFile(i) ==
    /\ i \in 1..Len(fileList.items)
    /\ ~fileList.items[i].isFolder
    /\ openFile(fileList.items[i])
    /\ UNCHANGED <<currentPath, containerUrl, containerName, storageAccount, files,
                   folders, fileList, breadcrumbs, loading, errorMessage, inflight,
                   lastDone>>

refresh ==
    IF containerUrl /= <<>>
    THEN /\ loadContainerContents(currentPath, containerUrl, Snapshot)
         /\ UNCHANGED <<currentPath, containerUrl, containerName, storageAccount, files,
                        folders, fileList, breadcrumbs, lastDone, opened>>
    ELSE UNCHANGED vars

Next ==
    \/ \E urlInput \in UrlInputs : connect(urlInput)
    \/ \E i \in 1..Len(fileList.items) : ClickFolder(i)
    \/ \E i \in 1..Len(breadcrumbs) : ClickCrumb(i)
    \/ refresh
    \/ \E i \in 1..Len(inflight), xmlDoc \in ServerDocs : FetchOk(i, xmlDoc)
    \/ \E i \in 1..Len(inflight), failure \in Failures : FetchFail(i, failure)

\* browsing one container
Spec == Init /\ [][Next]_vars

----------------------------------------------------------------------------
(* Address resolution alone: every URL input, one listing document *)

ResolverDoc == <<Blob(<<"a", "/", "b">>, <<"7">>, NoElement)>>

NextResolver ==
    \/ \E urlInput \in ResolverUrlInputs : connect(urlInput)
    \/ refresh
    \/ \E i \in 1..Len(inflight) : FetchOk(i, ResolverDoc)
    \/ \E i \in 1..Len(inflight) : FetchFail(i, "404")

SpecResolver == Init /\ [][NextResolver]_vars

----------------------------------------------------------------------------
(* The projector alone: processContainerResponse on every listing and path *)

ContainerC == Https \o <<"/", "/">> \o AccountHost \o <<"/", "c">>

\* a call for any path is outstanding; the response brings any listing
InitProjector ==
    /\ currentPath \in Strings(MaxPathLen)
    /\ containerUrl = ContainerC
    /\ containerName = <<"c">>
    /\ storageAccount = <<"a", "c">>
    /\ files = <<>>
    /\ folders = <<>>
    /\ fileList = [kind |-> "welcome", items |-> <<>>]
    /\ breadcrumbs = <<>>
    /\ loading = TRUE
    /\ errorMessage = ""
    /\ inflight = <<[path   |-> currentPath,
                     base   |-> ContainerC,
                     prefix |-> IF currentPath /= <<>>
                                THEN currentPath \o
                                     (IF EndsWith(currentPath, Slash) THEN <<>> ELSE Slash)
                                ELSE Null,
                     alone  |-> TRUE,
                     before |-> NoSnapshot]>>
    /\ lastDone = NoneDone
    /\ opened = <<>>

NextProjector == \E i \in 1..Len(inflight), xmlDoc \in Listings : FetchOk(i, xmlDoc)

SpecProjector == InitProjector /\ [][NextProjector]_vars

----------------------------------------------------------------------------
(* Navigation over every listing: connect, the clicks, refresh *)

\* the URL with an empty segment and a trailing "/" in its path
NavigatorUrlInputs == {urlInput \in ResolverUrlInputs : urlInput.hostname = TrailingHost}

\* the documents the server answers with: names with an empty segment, a
\* leading and a trailing "/", folders and files side by side, three levels
NavigatorDocs ==
    { <<Blob(<<"a", "/", "/", "b">>, <<"1", "0">>, Date(<<"d">>)),
        Blob(<<"/", "b">>, <<"5">>, Date(<<"d">>)),
        Blob(<<"a", "/">>, <<"0">>, NoElement),
        Blob(<<"b">>, <<"7">>, Date(<<"d">>))>>,
      <<Blob(<<"a", "/", "b", "/">>, <<"0">>, NoElement),
        Blob(<<"a", "/", "a">>, <<"7">>, Date(<<"d">>)),
        Blob(<<"a", "/", "b", "/", "/", "a">>, <<"5">>, Date(<<"d">>))>>,
      <<Blob(<<"a", "/", "b", "/", "a", "/">>, <<"0">>, NoElement),
        Blob(<<"a", "/", "b", "/", "b">>, <<"1", "0">>, Date(<<"d">>))>> }

NextNavigator ==
    \/ \E urlInput \in NavigatorUrlInputs : connect(urlInput)
    \/ \E i \in 1..Len(fileList.items) : ClickFolder(i)
    \/ \E i \in 1..Len(fileList.items) : ClickFile(i)
    \/ \E i \in 1..Len(breadcrumbs) : ClickCrumb(i)
    \/ refresh
    \/ \E i \in 1..Len(inflight), xmlDoc \in NavigatorDocs : FetchOk(i, xmlDoc)

SpecNavigator == Init /\ [][NextNavigator]_vars

----------------------------------------------------------------------------
(* Properties *)

\* the path with a trailing "/" when it is not empty and has none
NormalizedPrefix(path) ==
    IF path = <<>> \/ EndsWith(path, Slash) THEN path ELSE path \o Slash

\* the listing the last successful call projected, and the path it was for
Projected == lastDone.outcome = "ok"

\* the names of the <Blob> elements that have one
NamedBlobs(xmlDoc) == {i \in 1..Len(xmlDoc) : xmlDoc[i].Name /= NoElement}

\* every name of the listing starts with the prefix and occurs once
WellFormedListing(xmlDoc, path) ==
    /\ \A i \in NamedBlobs(xmlDoc) : StartsWith(xmlDoc[i].Name, NormalizedPrefix(path))
    /\ \A i, j \in NamedBlobs(xmlDoc) : xmlDoc[i].Name = xmlDoc[j].Name => i = j

\* C1: within one projection result the Node names are unique; when a
\* listing of distinct keys under the current path yields a file named X and
\* a folder named X, only the folder Node named X is in the result.
C1_NamesUnique ==
    (Projected /\ WellFormedListing(lastDone.xmlDoc, lastDone.path))
    => \A i, j \in 1..Len(files) : files[i].name = files[j].name => i = j

\* the positions of list whose Node is a file, in order
RECURSIVE FileNodes(_)
FileNodes(list) ==
    IF list = <<>> THEN <<>>
    ELSE IF Head(list).isFolder THEN FileNodes(Tail(list))
    ELSE <<Head(list)>> \o FileNodes(Tail(list))

\* the fullPaths of the nodes are keys of the listing, in listing order
RECURSIVE InListingOrder(_, _)
InListingOrder(nodes, xmlDoc) ==
    IF nodes = <<>> THEN TRUE
    ELSE IF xmlDoc = <<>> THEN FALSE
    ELSE IF Head(xmlDoc).Name = Head(nodes).fullPath
         THEN InListingOrder(Tail(nodes), Tail(xmlDoc))
    ELSE InListingOrder(nodes, Tail(xmlDoc))

\* C2: the projected sequence is every folder Node, in the order in which
\* the folder names were first discovered (the insertion order of
\* this.folders), followed by every file Node in listing order.
C2_FoldersFirstInDiscoveryOrder ==
    Projected =>
        /\ Len(files) >= Len(folders)
        /\ \A i \in 1..Len(folders) : files[i].isFolder /\ files[i].name = folders[i]
        /\ \A i \in (Len(folders) + 1)..Len(files) : ~files[i].isFolder
        /\ InListingOrder(FileNodes(files), lastDone.xmlDoc)

\* C3: when the fetch of a navigation fails (and no other handler ran in
\* between), currentPath and the Node list are what they were before the
\* navigation was invoked.
C3_FailureRestoresPathAndNodes ==
    [][\A i \in 1..Len(inflight), failure \in Failures :
          (FetchFail(i, failure) /\ inflight[i].alone)
          => /\ currentPath' = inflight[i].before.currentPath
             /\ files' = inflight[i].before.files]_vars

\* C4: with a trail of n >= 2 segments, a click on the crumb of the k-th
\* segment navigates to that crumb's own path, the first k segments.
C4_CrumbNavigatesToOwnPath ==
    [][\A i \in 2..Len(breadcrumbs) :
          (Len(breadcrumbs) >= 3 /\ ClickCrumb(i))
          => /\ currentPath' = breadcrumbs[i].dataPath
             /\ inflight'[Len(inflight')].path = breadcrumbs[i].dataPath]_vars

\* C5: every navigation that starts a fetch cycle starts it for the path it
\* leaves in currentPath.
C5_CycleIsForCurrentPath ==
    [][Len(inflight') > Len(inflight)
       => inflight'[Len(inflight')].path = currentPath']_vars

\* what identifies an outstanding call
Request(call) == [path |-> call.path, base |-> call.base, prefix |-> call.prefix]

\* no step but the arrival of its own response ends an outstanding call
NoCallAborted ==
    \/ \E i \in 1..Len(inflight) :
          /\ Len(inflight') = Len(inflight) - 1
          /\ \A j \in 1..Len(inflight') :
                Request(inflight'[j]) = Request(Remove(inflight, i)[j])
    \/ /\ Len(inflight') >= Len(inflight)
       /\ \A j \in 1..Len(inflight) : Request(inflight'[j]) = Request(inflight[j])

\* the Node list stored and displayed is the projection of the response
\* that arrived last
LastResponseWins ==
    Projected =>
        /\ files = processContainerResponse(lastDone.xmlDoc, lastDone.path,
                                            lastDone.base).files
        /\ fileList.items = files
        /\ fileList.kind = IF files = <<>> THEN "empty" ELSE "grid"

\* C6: a navigation started while another's fetch is outstanding aborts
\* neither; the Node list stored and displayed is the projection of the
\* cycle whose response arrived last, whichever was requested last.
C6_LastResponseWins == []LastResponseWins /\ [][NoCallAborted]_vars

\* two overlapping cycles have ended and the Nodes displayed are those of
\* the path the earlier navigation asked for, not of currentPath
C6_Witness ==
    /\ inflight = <<>>
    /\ Projected
    /\ ~lastDone.alone
    /\ lastDone.path /= <<>>
    /\ lastDone.path /= currentPath
    /\ fileList.kind = "grid"
    /\ fileList.items = processContainerResponse(lastDone.xmlDoc, lastDone.path,
                                                 lastDone.base).files
    /\ fileList.items /= processContainerResponse(lastDone.xmlDoc, currentPath,
                                                  lastDone.base).files

\* the first segment of what follows the prefix in name
FirstSegment(name, path) ==
    Split(Substring(name, Len(NormalizedPrefix(path))), "/")[1]

\* empty, or segments joined by "/" with no segment empty
WellShaped(path) ==
    path = <<>> \/ \A k \in 1..Len(Split(path, "/")) : Split(path, "/")[k] /= <<>>

\* C7: an entry whose key does not start with the normalized prefix gives no
\* Node: every file Node's key starts with it, and every folder Node is named
\* by an entry that starts with it (shown for the paths navigation produces).
C7_OnlyPrefixedEntriesProject ==
    (Projected /\ WellShaped(lastDone.path)) =>
        \A n \in 1..Len(files) :
            IF files[n].isFolder
            THEN \E i \in NamedBlobs(lastDone.xmlDoc) :
                    /\ StartsWith(lastDone.xmlDoc[i].Name, NormalizedPrefix(lastDone.path))
                    /\ FirstSegment(lastDone.xmlDoc[i].Name, lastDone.path) = files[n].name
            ELSE StartsWith(files[n].fullPath, NormalizedPrefix(lastDone.path))

HasSlash(s) == \E i \in 1..Len(s) : s[i] = "/"

\* C8: no projected Node, file or folder, has a "/" in its name.
C8_NoSlashInNames ==
    \A n \in 1..Len(files) : ~HasSlash(files[n].name)

\* a projection that has a folder Node and a file Node, from names that have
\* a "/" after the prefix
C8_Witness ==
    /\ Projected
    /\ WellShaped(lastDone.path)
    /\ \E n \in 1..Len(files) : files[n].isFolder
    /\ \E n \in 1..Len(files) : ~files[n].isFolder
    /\ \E i \in NamedBlobs(lastDone.xmlDoc) :
          HasSlash(Substring(lastDone.xmlDoc[i].Name, PrefixLength(lastDone.path)))

InvalidUrlMessage ==
    "Invalid Azure Blob Storage URL format. Expected: https://account.blob.core.windows.net/container"

\* C9: a connect whose address resolution fails writes none of
\* storageAccount, containerName, containerUrl and currentPath, shows an
\* error and starts no fetch cycle.
C9_FailedResolutionWritesNothing ==
    [][\A urlInput \in ResolverUrlInputs :
          (connect(urlInput) /\ urlInput.text /= "" /\ ~parseAzureBlobUrl(urlInput).ok)
          => /\ UNCHANGED <<storageAccount, containerName, containerUrl, currentPath>>
             /\ errorMessage' = InvalidUrlMessage
             /\ UNCHANGED <<inflight, loading>>]_vars

\* a connect was rejected after an address had been resolved, and the
\* address is still there
C9_Witness ==
    /\ errorMessage = InvalidUrlMessage
    /\ containerUrl /= <<>>
    /\ storageAccount /= <<>>
    /\ containerName /= <<>>
    /\ currentPath /= <<>>

\* the hostname of protocol//hostname/container
HostOf(url) == Split(url, "/")[3]

\* one or more labels, then the blob service domain, then nothing
IsBlobEndpoint(hostname) ==
    /\ EndsWith(hostname, BlobDomain)
    /\ Len(hostname) > Len(BlobDomain)
    /\ hostname[1] /= "."

\* C10: resolution succeeds only for a hostname that ends with the blob
\* service domain after one or more labels.
C10_OnlyBlobEndpointsResolve ==
    containerUrl /= <<>> => IsBlobEndpoint(HostOf(containerUrl))

----------------------------------------------------------------------------
(* C11 - C19 *)

\* a step in which an outstanding call ends in the catch block
CycleFails == Len(inflight') < Len(inflight) /\ lastDone'.outcome = "fail"

\* C11: every fetch cycle that ends in failure (404, 403, another status
\* that is not ok, a rejected fetch) leaves the loading indicator hidden and
\* an error message displayed when it returns.
C11_FailureHidesLoadingShowsError ==
    [][CycleFails
       => /\ loading' = FALSE
          /\ errorMessage' /= ""
          /\ \E failure \in Failures :
                errorMessage' = "Error loading container: " \o FailureMessage(failure)]_vars

\* a cycle has failed with a rejected fetch, none is outstanding, the
\* indicator is hidden and the message is displayed
C11_Witness ==
    /\ lastDone.outcome = "fail"
    /\ inflight = <<>>
    /\ ~loading
    /\ errorMessage = "Error loading container: Failed to fetch"

\* a Node as the data model has it: every field but the url
NodeData(node) ==
    [name |-> node.name, fullPath |-> node.fullPath, isFolder |-> node.isFolder,
     size |-> node.size, lastModified |-> node.lastModified]

NodeSequence(list) == [n \in 1..Len(list) |-> NodeData(list[n])]

\* a step in which a projection follows a projection of the same entries for
\* the same path
Reprojects ==
    /\ lastDone.outcome = "ok"
    /\ lastDone'.outcome = "ok"
    /\ Len(inflight') < Len(inflight)
    /\ lastDone'.xmlDoc = lastDone.xmlDoc
    /\ lastDone'.path = lastDone.path

\* the Nodes and the folder set are those a controller with no Nodes, no
\* folder set and no container gives for the same entries and path
AsFromScratch ==
    Projected =>
        LET scratch == processContainerResponse(lastDone.xmlDoc, lastDone.path, <<>>)
        IN  /\ NodeSequence(files) = NodeSequence(scratch.files)
            /\ folders = scratch.folders

\* C12: the projection is a function of the entries and the path only: a
\* second projection of the same entries and path gives the same Node
\* sequence in the same order, and every projection gives what it gives from
\* scratch, whatever Nodes and folder set an earlier projection left.
C12_ProjectionIsAFunction ==
    /\ []AsFromScratch
    /\ [][Reprojects => /\ NodeSequence(files') = NodeSequence(files)
                        /\ folders' = folders]_vars

\* an earlier projection gave Nodes (it built the crumbs), and the last one,
\* of entries that are not under its path, gave none
C12_Witness ==
    /\ Projected
    /\ lastDone.xmlDoc /= <<>>
    /\ breadcrumbs /= <<>>
    /\ files = <<>>
    /\ folders = <<>>
    /\ fileList.kind = "empty"

\* no folder Node, stored or displayed, has a url
NoFolderHasUrl ==
    /\ \A n \in 1..Len(files) : files[n].isFolder => files[n].url = Null
    /\ \A n \in 1..Len(fileList.items) :
          fileList.items[n].isFolder => fileList.items[n].url = Null

\* openFile was last called, if ever, with a Node that is not a folder
OnlyFilesOpened == opened /= <<>> => ~opened[1].file.isFolder

\* C13: no folder Node carries a url; a click on a folder item starts a
\* navigation and calls neither openFile nor window.open; openFile is called
\* only with Nodes that are not folders.
C13_FoldersAreNeverOpened ==
    /\ [](NoFolderHasUrl /\ OnlyFilesOpened)
    /\ [][\A i \in 1..Len(fileList.items) :
            ClickFolder(i) => /\ opened' = opened
                              /\ Len(inflight') = Len(inflight) + 1]_vars

\* two levels down by clicks on folders, a folder and a file are displayed
\* and the file has been opened at its url
C13_Witness ==
    /\ Projected
    /\ Len(lastDone.path) > 1
    /\ \E n \in 1..Len(fileList.items) : fileList.items[n].isFolder
    /\ opened /= <<>>
    /\ \E n \in 1..Len(fileList.items) : fileList.items[n] = opened[1].file
    /\ opened[1].window = containerUrl \o Slash \o opened[1].file.fullPath

\* the trail of a path: the root crumb, then one crumb per segment with the
\* path up to that segment
Trail(containerLabel, path) ==
    LET pathParts == FilterNonEmpty(Split(path, "/"))
    IN  <<[label |-> containerLabel, path |-> <<>>]>> \o
        [i \in 1..Len(pathParts) |->
            [label |-> pathParts[i], path |-> BuildPath(pathParts, i)]]

\* the labels and data-path attributes of the crumbs displayed
TrailShown ==
    [i \in 1..Len(breadcrumbs) |->
        [label |-> breadcrumbs[i].label, path |-> breadcrumbs[i].dataPath]]

\* C14: after a cycle has completed successfully for a path, the crumbs
\* displayed are the trail of that path and the items displayed are its
\* projection, also when the projection is empty and the empty state is
\* displayed.
C14_TrailFollowsEverySuccess ==
    Projected =>
        /\ TrailShown = Trail(containerName, lastDone.path)
        /\ fileList.items = files
        /\ fileList.kind = IF files = <<>> THEN "empty" ELSE "grid"

\* the fullPath of every folder Node of list is segments joined by "/", none
\* of them empty
FolderPathsWellShaped(list) ==
    \A n \in 1..Len(list) :
        list[n].isFolder => (list[n].fullPath /= <<>> /\ WellShaped(list[n].fullPath))

\* C15: currentPath is empty or segments joined by "/", none of them empty
\* (so no "/" at either end), and so is the fullPath of every folder Node,
\* stored or displayed.
C15_PathsWellShaped ==
    /\ WellShaped(currentPath)
    /\ FolderPathsWellShaped(files)
    /\ FolderPathsWellShaped(fileList.items)

\* two folders down, with a folder Node from a listing that has a name with
\* an empty segment
C15_Witness ==
    /\ Projected
    /\ lastDone.path = currentPath
    /\ Len(Split(currentPath, "/")) > 1
    /\ \E n \in 1..Len(files) : files[n].isFolder
    /\ \E i \in NamedBlobs(lastDone.xmlDoc) : ~WellShaped(lastDone.xmlDoc[i].Name)

\* the segments of what follows the prefix in name
Segments(name, path) == Split(Substring(name, Len(NormalizedPrefix(path))), "/")

\* every name of the listing starts with the prefix
UnderPrefix(xmlDoc, path) ==
    \A i \in NamedBlobs(xmlDoc) : StartsWith(xmlDoc[i].Name, NormalizedPrefix(path))

\* the entries whose name, after the prefix, is one segment that is not
\* empty, in listing order
RECURSIVE FileEntries(_, _)
FileEntries(xmlDoc, path) ==
    IF xmlDoc = <<>> THEN <<>>
    ELSE IF /\ Head(xmlDoc).Name /= NoElement
            /\ Len(Segments(Head(xmlDoc).Name, path)) = 1
            /\ Segments(Head(xmlDoc).Name, path)[1] /= <<>>
         THEN <<Head(xmlDoc)>> \o FileEntries(Tail(xmlDoc), path)
    ELSE FileEntries(Tail(xmlDoc), path)

\* the decimal numeral of a natural number
RECURSIVE Numeral(_)
Numeral(n) ==
    IF n < 10 THEN <<Digits[n + 1]>>
    ELSE Numeral(n \div 10) \o <<Digits[(n % 10) + 1]>>

\* C16: immediate children only. For a listing under the prefix, the file
\* Nodes are, in order, the entries whose name after the prefix is one
\* non-empty segment: name that segment, fullPath the key, size the
\* Content-Length. An entry with more segments gives no file Node and, when
\* its first segment is not empty, the folder Node named by that segment;
\* every folder Node is named by the first segment of such an entry.
C16_ImmediateChildrenOnly ==
    (Projected /\ WellShaped(lastDone.path) /\ UnderPrefix(lastDone.xmlDoc, lastDone.path))
    => LET xmlDoc == lastDone.xmlDoc
           path == lastDone.path
           fileNodes == FileNodes(files)
           entries == FileEntries(xmlDoc, path)
       IN  /\ Len(fileNodes) = Len(entries)
           /\ \A k \in 1..Len(fileNodes) :
                 /\ fileNodes[k].fullPath = entries[k].Name
                 /\ fileNodes[k].name = Segments(entries[k].Name, path)[1]
                 /\ entries[k].ContentLength /= NoElement
                    => Numeral(fileNodes[k].size) = entries[k].ContentLength
           /\ \A n \in 1..Len(files) :
                 files[n].isFolder
                 => \E i \in NamedBlobs(xmlDoc) :
                       /\ Len(Segments(xmlDoc[i].Name, path)) > 1
                       /\ Segments(xmlDoc[i].Name, path)[1] = files[n].name
           /\ \A i \in NamedBlobs(xmlDoc) :
                 (/\ Len(Segments(xmlDoc[i].Name, path)) > 1
                  /\ Segments(xmlDoc[i].Name, path)[1] /= <<>>)
                 => \E n \in 1..Len(files) :
                       /\ files[n].isFolder
                       /\ files[n].name = Segments(xmlDoc[i].Name, path)[1]

\* a listing under the prefix gave a file Node and a folder Node, the
\* folder from a name with a second segment that is not empty
C16_Witness ==
    /\ Projected
    /\ WellShaped(lastDone.path)
    /\ UnderPrefix(lastDone.xmlDoc, lastDone.path)
    /\ \E n \in 1..Len(files) : ~files[n].isFolder /\ files[n].size = 10
    /\ \E n \in 1..Len(files) : files[n].isFolder
    /\ \E i \in NamedBlobs(lastDone.xmlDoc) :
          /\ Len(Segments(lastDone.xmlDoc[i].Name, lastDone.path)) > 1
          /\ Segments(lastDone.xmlDoc[i].Name, lastDone.path)[2] /= <<>>

\* the step leaves currentPath as it is and adds one outstanding call, for
\* currentPath, to those there are
StartsCycleForCurrentPath ==
    /\ currentPath' = currentPath
    /\ Len(inflight') = Len(inflight) + 1
    /\ inflight'[Len(inflight')].path = currentPath
    /\ \A j \in 1..Len(inflight) : Request(inflight'[j]) = Request(inflight[j])

\* C17: refresh, and a navigation (folder click, crumb click) to the path
\* that is already current, leave currentPath unchanged and start a new
\* fetch cycle for it; a refresh before any address has been resolved starts
\* no fetch and changes nothing. (The handlers are deterministic: what is
\* enabled is what they do. The bound on outstanding calls is the model's.)
C17_RefreshRefetches ==
    /\ (containerUrl /= <<>> /\ Len(inflight) < MaxInFlight)
       => ENABLED (refresh /\ StartsCycleForCurrentPath)
    /\ containerUrl = <<>> => (inflight = <<>> /\ ~ENABLED (refresh /\ vars' /= vars))
    /\ \A i \in 1..Len(fileList.items) :
          (/\ fileList.items[i].isFolder
           /\ fileList.items[i].fullPath = currentPath
           /\ Len(inflight) < MaxInFlight)
          => ENABLED (ClickFolder(i) /\ StartsCycleForCurrentPath)
    /\ \A i \in 1..Len(breadcrumbs) :
          (breadcrumbs[i].target = currentPath /\ Len(inflight) < MaxInFlight)
          => ENABLED (ClickCrumb(i) /\ StartsCycleForCurrentPath)

\* a cycle is outstanding for currentPath, started by an operation that
\* found currentPath as it is now, in a folder
C17_Witness ==
    /\ Len(inflight) = 1
    /\ inflight[1].alone
    /\ inflight[1].before.currentPath = currentPath
    /\ inflight[1].path = currentPath
    /\ currentPath /= <<>>
    /\ Projected
    /\ lastDone.path = currentPath

\* C18: the loading indicator is displayed in every state with at least one
\* cycle outstanding, overlapping cycles included, and hidden in every state
\* with none.
C18_LoadingWhileOutstanding == loading <=> inflight /= <<>>

\* C19: the url of every file Node is the base URL of the container whose
\* listing gave the Node (the containerUrl the cycle's request was made
\* to), "/" and the Node's fullPath, also when a connect to another
\* container came while the cycle's fetch was outstanding.
C19_UrlOfListedContainer ==
    [][\A i \in 1..Len(inflight) :
          FetchOk(i, ResolverDoc)
          => \A n \in 1..Len(files') :
                ~files'[n].isFolder
                => files'[n].url = inflight[i].base \o Slash \o files'[n].fullPath]_vars

====
